---- MODULE Spec2Model ----
(***************************************************************************)
(* A model of the CHAOS robot brain (gadgetlabs/agentic_control):          *)
(*   - tools/microphone.py   MicrophoneManager: the audio callback, the    *)
(*                           wake-word queue and record()                  *)
(*   - agents/wake_word.py   WakeWordAgent: the listener thread and the    *)
(*                           detection queue                               *)
(*   - agents/speech_capture.py, main.py: the pipeline loop                *)
(*   - serial_reader.py      the telemetry task and the shared store       *)
(*   - robot_tools.py        the drive command frame                       *)
(* MicSpec, MicFairSpec and Mic2Spec run the MicrophoneManager, PipeSpec   *)
(* runs main(), TelSpec the telemetry task alone, DriveSpec drive() alone. *)
(***************************************************************************)
EXTENDS Integers, Sequences, FiniteSets, TLC

VARIABLES
    \* ---- tools/microphone.py : MicrophoneManager ----
    hw_rate,        \* self._hw_rate (MIC_SAMPLE_RATE)
    cb_buf,         \* self._cb_buf: the mini-blocks accumulated so far
    mode,           \* self._mode: "WAKE_WORD" or "CAPTURE"
    wake_queue,     \* self._wake_queue (queue.Queue(maxsize=4))
    cap_chunks,     \* self._cap_chunks
    cap_need,       \* self._cap_need
    cap_done,       \* self._cap_done (threading.Event)
    chunk_count,    \* self._chunk_count
    nblocks,        \* number of hardware blocks delivered so far
    pcCb,           \* position of the callback thread inside _callback
    cbChunk,        \* the callback's local `chunk`
    pcR,            \* position of each record() caller
    recSecs,        \* each caller's `seconds`, in units of 1/SecsDen s
    recNeed,        \* each caller's local `chunks_needed`
    calls,          \* number of record() calls each caller has completed
    ret,            \* what each caller's last record() returned
    enq,            \* history: chunks ever put on the wake queue
    enqAtCall,      \* history: enq when each caller's record() started
    partAtCall,     \* history: first block of the chunk under way at the call
    listened,       \* history: chunks dispatched in WAKE_WORD mode, in order
    removed,        \* history: has anything been taken off the wake queue
    lastChunk,      \* what next_chunk() returned last
    \* ---- agents/wake_word.py : WakeWordAgent ----
    wwPc,           \* position of the listener thread in _listen_loop
    wwStream,       \* the listener's own input stream is open
    wwQueue,        \* number of items in self._queue
    nDetect,        \* history: wake words detected so far
    \* ---- main.py : pipeline, with the agents it calls ----
    pipePc,         \* position of the pipeline coroutine
    capStream,      \* SpeechCaptureAgent's stream is open
    streamsOpened,  \* history: input streams opened since process start
    audio,          \* samples in the tensor handed to transcribe
    text,           \* the recognised text
    kind,           \* kind.get("type") of the classification
    plan,           \* the plan's steps
    stepIdx,        \* MotorControlAgent.execute: index of the current step
    toolLog,        \* history: tools invoked by the current execute
    response,       \* the string handed to speak
    spoken,         \* what speak was last called with
    cyc,            \* history: stages of the current cycle, in order
    nConsumed,      \* history: detection events taken by wait()
    nCaptures,      \* history: captures started
    \* ---- serial_reader.py ----
    serPc,          \* state of the telemetry task
    stubFlag,       \* STUB (STUB_HARDWARE), once run() has tested it
    robot_state,    \* the shared store of the latest readings
    lastLine,       \* the parts of the line readline() returned last
    lastErr,        \* errno of the last SerialException caught (0: none)
    serAttempts,    \* history: calls of open_serial_connection
    serBackoffs,    \* history: completed 5 s waits
    stubT,          \* _stub_run: number of ticks made
    \* ---- robot_tools.py ----
    driveArgs,      \* throttle and steering of the last drive(), in 1/100
    canFrame        \* the last frame handed to _send_can

micVars == <<hw_rate, cb_buf, mode, wake_queue, cap_chunks, cap_need, cap_done,
             chunk_count, nblocks, pcCb, cbChunk, pcR, recSecs, recNeed, calls,
             ret, enq, enqAtCall, partAtCall, listened, removed,
                   lastChunk>>

wwVars == <<wwPc, wwStream, wwQueue, nDetect>>
pipeVars == <<pipePc, capStream, streamsOpened, audio, text, kind, plan,
              stepIdx, toolLog, response, spoken, cyc, nConsumed, nCaptures>>
serVars == <<serPc, stubFlag, robot_state, lastLine, lastErr, serAttempts,
             serBackoffs, stubT>>
canVars == <<driveArgs, canFrame>>
mainVars == <<wwVars, pipeVars, serVars, canVars>>

vars == <<micVars, mainVars>>

----------------------------------------------------------------------------
\* Program constants

\* SAMPLE_RATE of SimpleWakeWords: the rate the models want
SAMPLE_RATE == 16000
\* CHUNK_SAMPLES of SimpleWakeWords: samples per model chunk
CHUNK_SAMPLES == 16000
\* CB_FRAMES: the callback block size at model rate
CB_FRAMES == 4096
\* a queue created one slot too large
WakeQueueMaxOneMore == 4 + 1
\* maxsize of self._wake_queue
WakeQueueMax == 4

\* speech_capture.py: SAMPLE_RATE and CHUNK, and main.py: seconds=3
CaptureRate == 16000
CaptureChunk == 1024
CaptureSeconds == 3

\* serial_reader.py line 90: "[Errno 2]" names the missing port
AbsentErrno == 2

\* Bounds of the model
MaxAttempts == 3
MaxTicks == 2
MaxK == 40          \* block sizes tried, in units of R/g samples
MaxDetect == 2      \* wake words detected in a run
MaxBlocks == 22     \* hardware blocks delivered in a run
MaxSecs == 6       \* longest record() duration, in units of 1/SecsDen s
MaxCalls == 1       \* record() calls per caller
SecsDen == 4        \* durations are multiples of 1/4 s

\* MIC_SAMPLE_RATE values tried
HwRates == {16000, 44100, 48000}
Callers == {1, 2}
NoChunk == [first |-> 0, len |-> 0]
NoRet == [secs |-> 0, need |-> 0, buf |-> <<>>]

\* what the collaborators may answer
Texts == {"", "stop"}
Kinds == {"dialogue", "action", "other"}
Step(t, d) == [tool |-> t, duration |-> d, args |-> <<>>]
\* a drive step, throttle and steering in hundredths
DriveStep(th, st, d) == [tool |-> "drive", duration |-> d, args |-> <<th, st>>]
Plans == { <<>>,
           <<Step("stop", 0)>>,
           <<Step("dance", 1), DriveStep(150, -29, 1), Step("stop", 0)>> }
NoFrame == [id |-> 0, data |-> <<>>]
NoResponse == [msg |-> "", n |-> 0]

\* errno values a SerialException may carry: ENOENT and EIO
Errnos == {2, 5}
\* lines the serial port may deliver, split at the commas
Lines == { <<"$IMU", "1", "2", "3", "4", "5", "6">>,
           <<"$IMU", "1", "2">>,
           <<"$CMP", "1", "2", "3">>,
           <<"$ODO", "1", "2">>,
           <<"$ODO", "3", "0.5">>,
           <<"$ODO", "1", "x">>,
           <<"$RPM", "7", "8">>,
           <<"$LDR", "300", "7", "8">>,
           <<"$LDR", "300", "0.5">>,
           <<"$LDR", "300">>,
           <<"$XYZ", "1">>,
           <<"boot">> }
\* the lines tried while the whole of main() runs
MainLines == { <<"$ODO", "1", "2">>, <<"$ODO", "1", "x">> }

----------------------------------------------------------------------------
\* Arithmetic the code relies on

Min(a, b) == IF a < b THEN a ELSE b
Max(a, b) == IF a > b THEN a ELSE b

RECURSIVE GCD(_, _)
GCD(a, b) == IF b = 0 THEN a ELSE GCD(b, a % b)

\* ceil(num / den), den > 0
Ceil(num, den) == (num + den - 1) \div den

\* Python's round() of num/den: to the nearest integer, ties to even
PyRound(num, den) ==
    LET f == num \div den
        r == num % den
    IN  IF 2 * r < den THEN f
        ELSE IF 2 * r > den THEN f + 1
        ELSE IF f % 2 = 0 THEN f ELSE f + 1

\* self._hw_blocksize = round(CB_FRAMES * (hw_rate / model_rate))
HwBlocksize(hw) == PyRound(CB_FRAMES * hw, SAMPLE_RATE)

\* self._hw_per_chunk = round(self._model_chunk / CB_FRAMES)
HwPerChunk == PyRound(CHUNK_SAMPLES, CB_FRAMES)

\* a resampler that always adds a sample to the quotient
ResamplePolyLenPlusOne(n, up, down) == (n * up) \div down + 1
\* scipy.signal.resample_poly(x, up, down): ceil(len(x) * up / down) samples
ResamplePolyLen(n, up, down) == Ceil(n * up, down)

\* the length of `mini` after the resampling step of _callback
MiniLen(hw) ==
    IF hw # SAMPLE_RATE
    THEN LET g == GCD(SAMPLE_RATE, hw)
         IN  ResamplePolyLen(HwBlocksize(hw), SAMPLE_RATE \div g, hw \div g)
    ELSE HwBlocksize(hw)

\* np.concatenate(self._cb_buf)[:self._model_chunk]: a chunk is named by the
\* index of its first hardware block and carries its length in samples
AssembleChunk(buf, hw) ==
    [first |-> buf[1], len |-> Min(Len(buf) * MiniLen(hw), CHUNK_SAMPLES)]

\* chunks_needed = max(1, round(seconds * model_rate / model_chunk)),
\* seconds = q / SecsDen
ChunksNeeded(q) == Max(1, PyRound(q * SAMPLE_RATE, SecsDen * CHUNK_SAMPLES))

\* queue.Queue operations
QFull(q) == Len(q) >= WakeQueueMax
\* get_nowait(); queue.Empty is swallowed by the callers
QGetNowait(q) == IF q = <<>> THEN q ELSE Tail(q)
\* a put that adds at the head of the queue
QPutNowaitFront(q, x) == IF QFull(q) THEN q ELSE <<x>> \o q
\* put_nowait(x); queue.Full is swallowed by the caller
QPutNowait(q, x) == IF QFull(q) THEN q ELSE Append(q, x)

\* torch.cat(chunks).shape[0]
RECURSIVE SampleCount(_)
SampleCount(s) == IF s = <<>> THEN 0 ELSE Head(s).len + SampleCount(Tail(s))

SeqToSet(s) == {s[i] : i \in 1..Len(s)}

----------------------------------------------------------------------------
\* MicrophoneManager.__init__

MicInit ==
    /\ hw_rate \in HwRates
    /\ cb_buf = <<>>
    /\ mode = "WAKE_WORD"
    /\ wake_queue = <<>>
    /\ cap_chunks = <<>>
    /\ cap_need = 0
    /\ cap_done = FALSE
    /\ chunk_count = 0
    /\ nblocks = 0
    /\ pcCb = "idle"
    /\ cbChunk = NoChunk
    /\ pcR = [c \in Callers |-> "idle"]
    /\ recSecs = [c \in Callers |-> 0]
    /\ recNeed = [c \in Callers |-> 0]
    /\ calls = [c \in Callers |-> 0]
    /\ ret = [c \in Callers |-> NoRet]
    /\ enq = {}
    /\ enqAtCall = [c \in Callers |-> {}]
    /\ partAtCall = [c \in Callers |-> 0]
    /\ listened = <<>>
    /\ removed = FALSE
    /\ lastChunk = NoChunk

recVars == <<pcR, recSecs, recNeed, calls, ret, enqAtCall, partAtCall>>

----------------------------------------------------------------------------
\* MicrophoneManager._callback, one action per statement that touches state
\* shared with the other threads

\* lines 87-114: a hardware block arrives; it is resampled and accumulated,
\* and a full chunk is assembled once hw_per_chunk blocks are there
CbBlock ==
    /\ pcCb = "idle"
    /\ nblocks < MaxBlocks
    /\ nblocks' = nblocks + 1
    /\ LET buf == Append(cb_buf, nblocks + 1)
       IN  IF Len(buf) < HwPerChunk
           THEN /\ cb_buf' = buf
                /\ UNCHANGED <<pcCb, cbChunk, chunk_count>>
           ELSE /\ cb_buf' = <<>>
                /\ cbChunk' = AssembleChunk(buf, hw_rate)
                /\ chunk_count' = chunk_count + 1
                /\ pcCb' = "dispatch"
    /\ UNCHANGED <<hw_rate, mode, wake_queue, cap_chunks, cap_need, cap_done,
                   enq, listened, removed, lastChunk>>
    /\ UNCHANGED <<recVars, mainVars>>

\* line 116: if self._mode == "CAPTURE"
CbDispatch ==
    /\ pcCb = "dispatch"
    /\ IF mode = "CAPTURE"
       THEN /\ pcCb' = "append"
            /\ UNCHANGED listened
       ELSE /\ pcCb' = "full"
            /\ listened' = Append(listened, cbChunk)
    /\ UNCHANGED <<hw_rate, cb_buf, mode, wake_queue, cap_chunks, cap_need,
                   cap_done, chunk_count, nblocks, cbChunk, enq, removed,
                   lastChunk>>
    /\ UNCHANGED <<recVars, mainVars>>

\* a callback whose capture branch falls through to the queue branch
CbAppendAndQueue ==
    /\ pcCb = "append"
    /\ cap_chunks' = Append(cap_chunks, cbChunk)
    /\ pcCb' = "full"
    /\ UNCHANGED <<hw_rate, cb_buf, mode, wake_queue, cap_need, cap_done,
                   chunk_count, nblocks, cbChunk, enq, listened, removed,
                   lastChunk>>
    /\ UNCHANGED <<recVars, mainVars>>

\* line 117: self._cap_chunks.append(chunk)
CbAppend ==
    /\ pcCb = "append"
    /\ cap_chunks' = Append(cap_chunks, cbChunk)
    /\ pcCb' = "check"
    /\ UNCHANGED <<hw_rate, cb_buf, mode, wake_queue, cap_need, cap_done,
                   chunk_count, nblocks, cbChunk, enq, listened, removed,
                   lastChunk>>
    /\ UNCHANGED <<recVars, mainVars>>

\* the completion test written with > : one chunk too many is collected
CaptureCompleteLate(chunks, need) == Len(chunks) > need
\* line 118: if len(self._cap_chunks) >= self._cap_need
CaptureComplete(chunks, need) == Len(chunks) >= need

CbCheck ==
    /\ pcCb = "check"
    /\ pcCb' = IF CaptureComplete(cap_chunks, cap_need) THEN "flip" ELSE "idle"
    /\ UNCHANGED <<hw_rate, cb_buf, mode, wake_queue, cap_chunks, cap_need,
                   cap_done, chunk_count, nblocks, cbChunk, enq, listened,
                   removed, lastChunk>>
    /\ UNCHANGED <<recVars, mainVars>>

\* a callback that signals without going back to WAKE_WORD
CbFlipSkipped ==
    /\ pcCb = "flip"
    /\ pcCb' = "set"
    /\ UNCHANGED <<hw_rate, cb_buf, mode, wake_queue, cap_chunks, cap_need,
                   cap_done, chunk_count, nblocks, cbChunk, enq, listened,
                   removed, lastChunk>>
    /\ UNCHANGED <<recVars, mainVars>>

\* line 119: self._mode = "WAKE_WORD"
CbFlip ==
    /\ pcCb = "flip"
    /\ mode' = "WAKE_WORD"
    /\ pcCb' = "set"
    /\ UNCHANGED <<hw_rate, cb_buf, wake_queue, cap_chunks, cap_need, cap_done,
                   chunk_count, nblocks, cbChunk, enq, listened, removed,
                   lastChunk>>
    /\ UNCHANGED <<recVars, mainVars>>

\* line 120: self._cap_done.set()
CbSet ==
    /\ pcCb = "set"
    /\ cap_done' = TRUE
    /\ pcCb' = "idle"
    /\ UNCHANGED <<hw_rate, cb_buf, mode, wake_queue, cap_chunks, cap_need,
                   chunk_count, nblocks, cbChunk, enq, listened, removed,
                   lastChunk>>
    /\ UNCHANGED <<recVars, mainVars>>

\* the callback without its drop-oldest step: a full queue refuses the chunk
DropNeededNever(q) == FALSE
\* line 123: if self._wake_queue.full()
DropNeeded(q) == QFull(q)

CbFull ==
    /\ pcCb = "full"
    /\ pcCb' = IF DropNeeded(wake_queue) THEN "get" ELSE "put"
    /\ UNCHANGED <<hw_rate, cb_buf, mode, wake_queue, cap_chunks, cap_need,
                   cap_done, chunk_count, nblocks, cbChunk, enq, listened,
                   removed, lastChunk>>
    /\ UNCHANGED <<recVars, mainVars>>

\* lines 124-127: self._wake_queue.get_nowait(), queue.Empty passed over
CbGet ==
    /\ pcCb = "get"
    /\ wake_queue' = QGetNowait(wake_queue)
    /\ pcCb' = "put"
    /\ UNCHANGED <<hw_rate, cb_buf, mode, cap_chunks, cap_need, cap_done,
                   chunk_count, nblocks, cbChunk, enq, listened, removed,
                   lastChunk>>
    /\ UNCHANGED <<recVars, mainVars>>

\* lines 128-131: self._wake_queue.put_nowait(chunk), queue.Full passed over
CbPut ==
    /\ pcCb = "put"
    /\ wake_queue' = QPutNowait(wake_queue, cbChunk)
    /\ enq' = IF QFull(wake_queue) THEN enq ELSE enq \cup {cbChunk}
    /\ pcCb' = "idle"
    /\ UNCHANGED <<hw_rate, cb_buf, mode, cap_chunks, cap_need, cap_done,
                   chunk_count, nblocks, cbChunk, listened, removed, lastChunk>>
    /\ UNCHANGED <<recVars, mainVars>>

----------------------------------------------------------------------------
\* MicrophoneManager.next_chunk: the blocking get of the wake-word consumer

NextChunk ==
    /\ wake_queue # <<>>
    /\ lastChunk' = Head(wake_queue)
    /\ wake_queue' = Tail(wake_queue)
    /\ removed' = TRUE
    /\ UNCHANGED <<hw_rate, cb_buf, mode, cap_chunks, cap_need, cap_done,
                   chunk_count, nblocks, pcCb, cbChunk, enq, listened>>
    /\ UNCHANGED <<recVars, mainVars>>

----------------------------------------------------------------------------
\* MicrophoneManager.record.  The coroutine runs on the event loop: between
\* its start and its await no other coroutine of the loop runs, while the
\* callback thread and the wake-word thread run at any time.

LoopFree(c) == \A d \in Callers \ {c} : pcR[d] \in {"idle", "wait"}

\* the first block of the chunk the callback has begun and not yet
\* dispatched (0: there is none)
ChunkUnderWay ==
    IF pcCb = "dispatch" THEN cbChunk.first
    ELSE IF cb_buf # <<>> THEN cb_buf[1]
    ELSE 0

\* lines 143-144: chunks_needed = ...; self._cap_chunks = []
RecordCall(c, q) ==
    /\ pcR[c] = "idle"
    /\ calls[c] < MaxCalls
    /\ LoopFree(c)
    /\ recSecs' = [recSecs EXCEPT ![c] = q]
    /\ recNeed' = [recNeed EXCEPT ![c] = ChunksNeeded(q)]
    /\ cap_chunks' = <<>>
    /\ enqAtCall' = [enqAtCall EXCEPT ![c] = enq]
    /\ partAtCall' = [partAtCall EXCEPT ![c] = ChunkUnderWay]
    /\ ret' = [ret EXCEPT ![c] = NoRet]
    /\ pcR' = [pcR EXCEPT ![c] = "need"]
    /\ UNCHANGED <<hw_rate, cb_buf, mode, wake_queue, cap_need, cap_done,
                   chunk_count, nblocks, pcCb, cbChunk, calls, enq, listened,
                   removed, lastChunk>>
    /\ UNCHANGED mainVars

\* line 145: self._cap_need = chunks_needed
RecordSetNeed(c) ==
    /\ pcR[c] = "need"
    /\ cap_need' = recNeed[c]
    /\ pcR' = [pcR EXCEPT ![c] = "clear"]
    /\ UNCHANGED <<hw_rate, cb_buf, mode, wake_queue, cap_chunks, cap_done,
                   chunk_count, nblocks, pcCb, cbChunk, recSecs, recNeed, calls,
                   ret, enq, enqAtCall, partAtCall, listened, removed,
                   lastChunk>>
    /\ UNCHANGED mainVars

\* line 146: self._cap_done.clear()
RecordClear(c) ==
    /\ pcR[c] = "clear"
    /\ cap_done' = FALSE
    /\ pcR' = [pcR EXCEPT ![c] = "drain"]
    /\ UNCHANGED <<hw_rate, cb_buf, mode, wake_queue, cap_chunks, cap_need,
                   chunk_count, nblocks, pcCb, cbChunk, recSecs, recNeed, calls,
                   ret, enq, enqAtCall, partAtCall, listened, removed,
                   lastChunk>>
    /\ UNCHANGED mainVars

\* a drain that hands the stale chunks to the capture
DrainIntoCapture(chunks, x) == Append(chunks, x)
\* what the drain loop does with the chunk it takes off the queue: drops it
DrainInto(chunks, x) == chunks

\* lines 149-153: while not self._wake_queue.empty(): get_nowait()
RecordDrain(c) ==
    /\ pcR[c] = "drain"
    /\ IF wake_queue # <<>>
       THEN /\ wake_queue' = QGetNowait(wake_queue)
            /\ cap_chunks' = DrainInto(cap_chunks, Head(wake_queue))
            /\ removed' = TRUE
            /\ UNCHANGED pcR
       ELSE /\ pcR' = [pcR EXCEPT ![c] = "mode"]
            /\ UNCHANGED <<wake_queue, cap_chunks, removed>>
    /\ UNCHANGED <<hw_rate, cb_buf, mode, cap_need, cap_done, chunk_count,
                   nblocks, pcCb, cbChunk, recSecs, recNeed, calls, ret, enq,
                   enqAtCall, partAtCall, listened, lastChunk>>
    /\ UNCHANGED mainVars

\* line 155: self._mode = "CAPTURE"
RecordSetMode(c) ==
    /\ pcR[c] = "mode"
    /\ mode' = "CAPTURE"
    /\ pcR' = [pcR EXCEPT ![c] = "wait"]
    /\ UNCHANGED <<hw_rate, cb_buf, wake_queue, cap_chunks, cap_need, cap_done,
                   chunk_count, nblocks, pcCb, cbChunk, recSecs, recNeed, calls,
                   ret, enq, enqAtCall, partAtCall, listened, removed,
                   lastChunk>>
    /\ UNCHANGED mainVars

\* lines 157-162: the awaited self._cap_done.wait() has returned;
\* audio = torch.cat(self._cap_chunks); return audio
RecordReturn(c) ==
    /\ pcR[c] = "wait"
    /\ cap_done
    /\ LoopFree(c)
    /\ ret' = [ret EXCEPT ![c] =
                 [secs |-> recSecs[c], need |-> recNeed[c], buf |-> cap_chunks]]
    /\ calls' = [calls EXCEPT ![c] = calls[c] + 1]
    /\ pcR' = [pcR EXCEPT ![c] = "idle"]
    /\ UNCHANGED <<hw_rate, cb_buf, mode, wake_queue, cap_chunks, cap_need,
                   cap_done, chunk_count, nblocks, pcCb, cbChunk, recSecs,
                   recNeed, enq, enqAtCall, partAtCall, listened, removed,
                   lastChunk>>
    /\ UNCHANGED mainVars

----------------------------------------------------------------------------
\* main(): the agents are constructed, the listener thread is started, and
\* the serial reader and the pipeline are gathered on the event loop

MainInit ==
    /\ wwPc = "open"
    /\ wwStream = FALSE
    /\ wwQueue = 0
    /\ nDetect = 0
    /\ pipePc = "wait"
    /\ capStream = FALSE
    /\ streamsOpened = 0
    /\ audio = 0
    /\ text = ""
    /\ kind = ""
    /\ plan = <<>>
    /\ stepIdx = 0
    /\ toolLog = <<>>
    /\ response = NoResponse
    /\ spoken = NoResponse
    /\ cyc = <<>>
    /\ nConsumed = 0
    /\ nCaptures = 0
    /\ serPc = "start"
    /\ stubFlag = FALSE
    /\ robot_state = [imu |-> <<>>, compass |-> <<>>, odom |-> <<>>,
                      rpm |-> <<>>, lidar |-> <<>>]
    /\ lastLine = <<>>
    /\ lastErr = 0
    /\ serAttempts = 0
    /\ serBackoffs = 0
    /\ stubT = 0
    /\ driveArgs = <<>>
    /\ canFrame = NoFrame

----------------------------------------------------------------------------
\* positions at which a coroutine keeps the event loop to itself: none, the
\* pipeline awaits asyncio.to_thread and asyncio.sleep (motor_control.py
\* line 43), the reader awaits serial_asyncio and asyncio.sleep
BlockingStagesSleep == {"hold"}
BlockingStages == {}
ReaderBlockingStates == {}
ReaderMayRun == pipePc \notin BlockingStages
PipelineMayRun == serPc \notin ReaderBlockingStates

----------------------------------------------------------------------------
\* WakeWordAgent._listen_loop (a daemon thread)

\* lines 73-80: the thread opens its own input stream; on failure it
\* prints and returns
WwOpen ==
    /\ wwPc = "open"
    /\ \/ /\ wwStream' = TRUE
          /\ streamsOpened' = streamsOpened + 1
          /\ wwPc' = "read"
       \/ /\ wwPc' = "exited"
          /\ UNCHANGED <<wwStream, streamsOpened>>
    /\ UNCHANGED <<wwQueue, nDetect, pipePc, capStream, audio, text, kind,
                   plan, stepIdx, toolLog, response, spoken, cyc, nConsumed,
                   nCaptures>>
    /\ UNCHANGED <<canVars, micVars, serVars>>

\* lines 84-91: chunk = _record_chunk(stream); an error here breaks the loop
WwRead ==
    /\ wwPc = "read"
    /\ \/ wwPc' = "score"
       \/ wwPc' = "exited"
    /\ UNCHANGED <<wwStream, wwQueue, nDetect>>
    /\ UNCHANGED <<canVars, micVars, pipeVars, serVars>>

\* lines 93-107: the similarity is computed (an error here continues the
\* loop) and, above the threshold, self._queue.put(True)
WwScore ==
    /\ wwPc = "score"
    /\ \E outcome \in {"error", "below", "above"} :
          IF outcome = "above"
          THEN /\ nDetect < MaxDetect
               /\ wwQueue' = wwQueue + 1
               /\ nDetect' = nDetect + 1
          ELSE UNCHANGED <<wwQueue, nDetect>>
    /\ wwPc' = "read"
    /\ UNCHANGED wwStream
    /\ UNCHANGED <<canVars, micVars, pipeVars, serVars>>

----------------------------------------------------------------------------
\* pipeline() of main.py

\* the call that failed raises out of pipeline()
FailPoints == {"capture", "capturing", "transcribe", "classify", "respond",
               "plan", "step", "speak"}

\* a get that gives up waiting
QueueGetTimesOut(n) == TRUE
\* WakeWordAgent.wait: self._queue.get() returns once an item is there
QueueGetReturns(n) == n > 0

\* line 58: await wake.wait()
PipeWake ==
    /\ pipePc = "wait"
    /\ PipelineMayRun
    /\ QueueGetReturns(wwQueue)
    /\ wwQueue' = wwQueue - Min(wwQueue, 1)
    /\ nConsumed' = nConsumed + Min(wwQueue, 1)
    /\ cyc' = <<"wait">>
    /\ pipePc' = "capture"
    /\ UNCHANGED <<wwPc, wwStream, nDetect, capStream, streamsOpened, audio,
                   text, kind, plan, stepIdx, toolLog, response, spoken,
                   nCaptures>>
    /\ UNCHANGED <<canVars, micVars, serVars>>

\* line 61 and SpeechCaptureAgent._record lines 22-26: a fresh stream is opened
PipeCaptureOpen ==
    /\ pipePc = "capture"
    /\ PipelineMayRun
    /\ capStream' = TRUE
    /\ streamsOpened' = streamsOpened + 1
    /\ nCaptures' = nCaptures + 1
    /\ cyc' = Append(cyc, "capture")
    /\ pipePc' = "capturing"
    /\ UNCHANGED <<wwVars, audio, text, kind, plan, stepIdx, toolLog, response,
                   spoken, nConsumed>>
    /\ UNCHANGED <<canVars, micVars, serVars>>

\* n_chunks = int(SAMPLE_RATE / CHUNK * self.seconds)
CaptureChunks == (CaptureRate * CaptureSeconds) \div CaptureChunk

\* SpeechCaptureAgent._record lines 27-34: n_chunks reads, then the stream
\* is closed
PipeCaptureRead ==
    /\ pipePc = "capturing"
    /\ PipelineMayRun
    /\ audio' = CaptureChunks * CaptureChunk
    /\ capStream' = FALSE
    /\ pipePc' = "transcribe"
    /\ UNCHANGED <<wwVars, streamsOpened, text, kind, plan, stepIdx, toolLog,
                   response, spoken, cyc, nConsumed, nCaptures>>
    /\ UNCHANGED <<canVars, micVars, serVars>>

\* the loop without its test for empty text
AfterTranscribeNoTest(t) == "classify"
\* lines 65-66: if not text: continue
AfterTranscribe(t) == IF t = "" THEN "wait" ELSE "classify"

\* lines 62-66: text = await stt.transcribe(audio); if not text: continue
PipeTranscribe ==
    /\ pipePc = "transcribe"
    /\ PipelineMayRun
    /\ \E t \in Texts :
          /\ text' = t
          /\ pipePc' = AfterTranscribe(t)
    /\ cyc' = Append(cyc, "recognize")
    /\ UNCHANGED <<wwVars, capStream, streamsOpened, audio, kind, plan,
                   stepIdx, toolLog, response, spoken, nConsumed, nCaptures>>
    /\ UNCHANGED <<canVars, micVars, serVars>>

\* lines 69-76: kind = await intent.classify(text);
\* if kind.get("type") == "dialogue": ... else: ...
PipeClassify ==
    /\ pipePc = "classify"
    /\ PipelineMayRun
    /\ \E k \in Kinds :
          /\ kind' = k
          /\ pipePc' = IF k = "dialogue" THEN "respond" ELSE "plan"
    /\ cyc' = Append(cyc, "classify")
    /\ UNCHANGED <<wwVars, capStream, streamsOpened, audio, text, plan,
                   stepIdx, toolLog, response, spoken, nConsumed, nCaptures>>
    /\ UNCHANGED <<canVars, micVars, serVars>>

\* line 73: response = await dialogue.respond(text)
PipeRespond ==
    /\ pipePc = "respond"
    /\ PipelineMayRun
    /\ response' = [msg |-> "reply", n |-> 0]
    /\ cyc' = Append(cyc, "converse")
    /\ pipePc' = "speak"
    /\ UNCHANGED <<wwVars, capStream, streamsOpened, audio, text, kind, plan,
                   stepIdx, toolLog, spoken, nConsumed, nCaptures>>
    /\ UNCHANGED <<canVars, micVars, serVars>>

\* line 75: plan = await planning.plan(text)
PipePlan ==
    /\ pipePc = "plan"
    /\ PipelineMayRun
    /\ plan' \in Plans
    /\ cyc' = Append(cyc, "act")
    /\ pipePc' = "execute"
    /\ UNCHANGED <<wwVars, capStream, streamsOpened, audio, text, kind,
                   stepIdx, toolLog, response, spoken, nConsumed, nCaptures>>
    /\ UNCHANGED <<canVars, micVars, serVars>>

\* robot_tools.py: the drive command

\* the hundredths h, 0 <= h <= 200, whose double h/100 times 100 is a
\* double just below h (0.29 * 100 = 28.999999999999996)
ProductBelow == {29, 57, 58, 113, 114, 115, 116}
\* int(x * 100) for x = h/100: the double product, truncated toward zero
IntTimes100(h) ==
    LET a == IF h < 0 THEN 0 - h ELSE h
        t == IF a \in ProductBelow THEN a - 1 ELSE a
    IN  IF h < 0 THEN 0 - t ELSE t
\* max(-100, min(100, v))
Clamp(v) == Max(0 - 100, Min(100, v))
\* v & 0xFF
Low8(v) == v % 256
\* drive lines 41-43: the frame sent with id 0x100
DriveFrame(th, st) ==
    [id |-> 256,
     data |-> <<Low8(Clamp(IntTimes100(th))), Low8(Clamp(IntTimes100(st))),
                0, 0, 0, 0, 0, 0>>]
\* stop line 48
StopFrame == [id |-> 256, data |-> <<0, 0, 0, 0, 0, 0, 0, 0>>]

\* drive lines 40-44
Drive(th, st) ==
    /\ driveArgs' = <<th, st>>
    /\ canFrame' = DriveFrame(th, st)
    /\ UNCHANGED <<micVars, wwVars, pipeVars, serVars>>

\* TOOL_MAP of motor_control.py
TOOL_MAP == {"drive", "stop", "set_emotion", "get_sensors"}

\* a loop that never waits
HoldNeededNever(d) == FALSE
\* line 42: if duration > 0
HoldNeeded(d) == d > 0

\* a summary that counts the steps whose tool was found
DoneMessageInvoked(p) ==
    [msg |-> "Done - n steps completed.",
     n |-> Cardinality({i \in 1..Len(p) : p[i].tool \in TOOL_MAP})]
\* line 45: f"Done - {len(plan)} steps completed."
DoneMessage(p) == [msg |-> "Done - n steps completed.", n |-> Len(p)]

\* MotorControlAgent.execute lines 24-27
PipeExecute ==
    /\ pipePc = "execute"
    /\ PipelineMayRun
    /\ toolLog' = <<>>
    /\ IF plan = <<>>
       THEN /\ response' = [msg |-> "No actions to execute.", n |-> 0]
            /\ pipePc' = "speak"
            /\ UNCHANGED stepIdx
       ELSE /\ stepIdx' = 1
            /\ pipePc' = "step"
            /\ UNCHANGED response
    /\ UNCHANGED <<wwVars, capStream, streamsOpened, audio, text, kind, plan,
                   spoken, cyc, nConsumed, nCaptures>>
    /\ UNCHANGED <<canVars, micVars, serVars>>

\* MotorControlAgent.execute lines 29-45: one turn of the loop, up to its
\* await, or the return after the last step
PipeStep ==
    /\ pipePc = "step"
    /\ PipelineMayRun
    /\ IF stepIdx > Len(plan)
       THEN /\ response' = DoneMessage(plan)
            /\ pipePc' = "speak"
            /\ UNCHANGED <<stepIdx, toolLog, canVars>>
       ELSE IF plan[stepIdx].tool \notin TOOL_MAP
       THEN /\ stepIdx' = stepIdx + 1
            /\ UNCHANGED <<pipePc, toolLog, response, canVars>>
       ELSE /\ toolLog' = Append(toolLog, plan[stepIdx].tool)
            /\ IF HoldNeeded(plan[stepIdx].duration)
               THEN /\ pipePc' = "hold"
                    /\ UNCHANGED stepIdx
               ELSE /\ stepIdx' = stepIdx + 1
                    /\ UNCHANGED pipePc
            /\ UNCHANGED response
            /\ IF plan[stepIdx].tool = "drive"
               THEN /\ driveArgs' = plan[stepIdx].args
                    /\ canFrame' = DriveFrame(plan[stepIdx].args[1],
                                              plan[stepIdx].args[2])
               ELSE IF plan[stepIdx].tool = "stop"
               THEN /\ canFrame' = StopFrame
                    /\ UNCHANGED driveArgs
               ELSE UNCHANGED canVars
    /\ UNCHANGED <<wwVars, capStream, streamsOpened, audio, text, kind, plan,
                   spoken, cyc, nConsumed, nCaptures>>
    /\ UNCHANGED <<micVars, serVars>>

\* MotorControlAgent.execute line 43: await asyncio.sleep(duration) is over
PipeHoldDone ==
    /\ pipePc = "hold"
    /\ PipelineMayRun
    /\ stepIdx' = stepIdx + 1
    /\ pipePc' = "step"
    /\ UNCHANGED <<wwVars, capStream, streamsOpened, audio, text, kind, plan,
                   toolLog, response, spoken, cyc, nConsumed, nCaptures>>
    /\ UNCHANGED <<canVars, micVars, serVars>>

\* line 79: await tts.speak(response), then the loop starts over
PipeSpeak ==
    /\ pipePc = "speak"
    /\ PipelineMayRun
    /\ spoken' = response
    /\ cyc' = Append(cyc, "speak")
    /\ pipePc' = "wait"
    /\ UNCHANGED <<wwVars, capStream, streamsOpened, audio, text, kind, plan,
                   stepIdx, toolLog, response, nConsumed, nCaptures>>
    /\ UNCHANGED <<canVars, micVars, serVars>>

\* lines 54-79 hold no try: an exception raised by an awaited call (the
\* stream cannot be opened, the recogniser fails, json.loads rejects the
\* model's answer, a tool raises, the synthesiser fails) leaves pipeline()
PipeFail ==
    /\ pipePc \in FailPoints
    /\ PipelineMayRun
    /\ pipePc' = "crashed"
    /\ UNCHANGED <<wwVars, capStream, streamsOpened, audio, text, kind, plan,
                   stepIdx, toolLog, response, spoken, cyc, nConsumed,
                   nCaptures>>
    /\ UNCHANGED <<canVars, micVars, serVars>>

\* main() lines 95-98: gather re-raises the first exception, asyncio.run
\* cancels the remaining task and the process ends, daemon thread included
ProcessExit ==
    /\ pipePc = "crashed" \/ serPc = "raised"
    /\ pipePc # "exited"
    /\ pipePc' = "exited"
    /\ serPc' = IF serPc = "raised" THEN serPc ELSE "cancelled"
    /\ wwPc' = "exited"
    /\ wwStream' = FALSE
    /\ capStream' = FALSE
    /\ UNCHANGED <<wwQueue, nDetect, streamsOpened, audio, text, kind, plan,
                   stepIdx, toolLog, response, spoken, cyc, nConsumed,
                   nCaptures>>
    /\ UNCHANGED <<stubFlag, robot_state, lastLine, lastErr, serAttempts,
                   serBackoffs, stubT>>
    /\ UNCHANGED <<canVars, micVars>>

----------------------------------------------------------------------------
\* serial_reader.py

\* the tokens that int() accepts, with their values
TokInt == [t \in {"1", "2", "3", "4", "5", "6", "7", "8", "300"} |->
             CASE t = "1" -> 1 [] t = "2" -> 2 [] t = "3" -> 3 [] t = "4" -> 4
               [] t = "5" -> 5 [] t = "6" -> 6 [] t = "7" -> 7 [] t = "8" -> 8
               [] t = "300" -> 300]
IsInt(t) == t \in DOMAIN TokInt
\* float() also accepts a decimal fraction
IsFloat(t) == IsInt(t) \/ t = "0.5"
\* float(t), in tenths
FloatOf(t) == IF IsInt(t) THEN 10 * TokInt[t] ELSE 5
\* int(t)
IntOf(t) == TokInt[t]

\* line.startswith("$")
StartsWithDollar(parts) ==
    /\ parts # <<>>
    /\ parts[1] \in {"$IMU", "$CMP", "$ODO", "$RPM", "$LDR", "$XYZ"}

\* the branch of parse_line a line takes: the tag and len(parts)
Branch(parts) ==
    LET tag == parts[1]
        n == Len(parts)
    IN  IF tag = "$IMU" /\ n = 7 THEN "imu"
        ELSE IF tag = "$CMP" /\ n = 4 THEN "compass"
        ELSE IF tag = "$ODO" /\ n = 3 THEN "odom"
        ELSE IF tag = "$RPM" /\ n = 3 THEN "rpm"
        ELSE IF tag = "$LDR" /\ n > 2 THEN "lidar"
        ELSE "none"

\* the fields a branch converts: parts[1:] for the floats, parts[2:] for lidar
Fields(parts) ==
    IF Branch(parts) = "lidar" THEN SubSeq(parts, 3, Len(parts))
    ELSE SubSeq(parts, 2, Len(parts))

\* float() or int() raises ValueError on one of the fields
ParseRaises(parts) ==
    /\ Branch(parts) # "none"
    /\ \E i \in 1..Len(Fields(parts)) :
          IF Branch(parts) = "lidar" THEN ~IsInt(Fields(parts)[i])
          ELSE ~IsFloat(Fields(parts)[i])

\* a parse that stores a record of which only the first field is written
ParseLineHalf(st, parts) ==
    IF Branch(parts) = "none" THEN st
    ELSE [st EXCEPT ![Branch(parts)] =
             <<IF Branch(parts) = "lidar" THEN IntOf(Fields(parts)[1])
               ELSE FloatOf(Fields(parts)[1])>>]
\* parse_line lines 32-50, for a line that does not raise: the entry of the
\* line's tag is replaced by a new record
ParseLine(st, parts) ==
    LET f == Fields(parts)
        floats == [i \in 1..Len(f) |-> FloatOf(f[i])]
        ints == [i \in 1..Len(f) |-> IntOf(f[i])]
    IN  CASE Branch(parts) = "imu" -> [st EXCEPT !.imu = floats]
          [] Branch(parts) = "compass" -> [st EXCEPT !.compass = floats]
          [] Branch(parts) = "odom" -> [st EXCEPT !.odom = floats]
          [] Branch(parts) = "rpm" -> [st EXCEPT !.rpm = floats]
          [] Branch(parts) = "lidar" -> [st EXCEPT !.lidar = ints]
          [] OTHER -> st

\* run lines 102-106: STUB_HARDWARE decides between the stub and the port
SerialStart ==
    /\ serPc = "start"
    /\ ReaderMayRun
    /\ \E stub \in BOOLEAN :
          /\ stubFlag' = stub
          /\ serPc' = IF stub THEN "stub" ELSE "open"
    /\ UNCHANGED <<robot_state, lastLine, lastErr, serAttempts, serBackoffs,
                   stubT>>
    /\ UNCHANGED <<canVars, micVars, wwVars, pipeVars>>

\* a handler that takes every error for a missing port
IsAbsentAlways(e) == TRUE
\* a handler that never recognises the missing port
IsAbsentNever(e) == FALSE
\* line 90: if "[Errno 2]" in str(e)
IsAbsent(e) == e = AbsentErrno

\* a handler that reopens at once
AfterErrorNoWait(e) == IF IsAbsent(e) THEN "stub" ELSE "open"
\* lines 89-99: the except clause falls back to the stub or waits 5 s
AfterError(e) == IF IsAbsent(e) THEN "stub" ELSE "backoff"

\* _serial_run lines 81-99: open_serial_connection succeeds, or raises a
\* SerialException
SerialOpen ==
    /\ serPc = "open"
    /\ ReaderMayRun
    /\ serAttempts' = Min(serAttempts + 1, MaxAttempts)
    /\ \/ /\ serPc' = "connected"
          /\ UNCHANGED lastErr
       \/ \E e \in Errnos :
            /\ lastErr' = e
            /\ serPc' = AfterError(e)
    /\ UNCHANGED <<stubFlag, robot_state, lastLine, serBackoffs, stubT>>
    /\ UNCHANGED <<canVars, micVars, wwVars, pipeVars>>

\* the same, as long as attempts are counted
SerialOpenCounted ==
    /\ serAttempts < MaxAttempts
    /\ SerialOpen

\* _serial_run lines 85-88: a line is read and, if it starts with "$",
\* parsed; the ValueError of a field that is no number is caught nowhere
SerialReadLine(parts) ==
    /\ serPc = "connected"
    /\ ReaderMayRun
    /\ lastLine' = parts
    /\ IF StartsWithDollar(parts) /\ ParseRaises(parts)
       THEN /\ serPc' = "raised"
            /\ UNCHANGED robot_state
       ELSE /\ robot_state' = IF StartsWithDollar(parts)
                              THEN ParseLine(robot_state, parts)
                              ELSE robot_state
            /\ UNCHANGED serPc
    /\ UNCHANGED <<stubFlag, lastErr, serAttempts, serBackoffs, stubT>>
    /\ UNCHANGED <<canVars, micVars, wwVars, pipeVars>>

\* _serial_run lines 85-99: readline raises a SerialException
SerialReadError ==
    /\ serPc = "connected"
    /\ ReaderMayRun
    /\ \E e \in Errnos :
          /\ lastErr' = e
          /\ serPc' = AfterError(e)
    /\ UNCHANGED <<stubFlag, robot_state, lastLine, serAttempts, serBackoffs,
                   stubT>>
    /\ UNCHANGED <<canVars, micVars, wwVars, pipeVars>>

\* a wait that zeroes the odometry while the port is away
SerialBackoffDoneZeroes ==
    /\ serPc = "backoff"
    /\ ReaderMayRun
    /\ serBackoffs' = Min(serBackoffs + 1, MaxAttempts)
    /\ serPc' = "open"
    /\ robot_state' = [robot_state EXCEPT !.odom = <<0, 0>>]
    /\ UNCHANGED <<stubFlag, lastLine, lastErr, serAttempts, stubT>>
    /\ UNCHANGED <<canVars, micVars, wwVars, pipeVars>>

\* _serial_run line 99: await asyncio.sleep(5) is over, the loop reopens
SerialBackoffDone ==
    /\ serPc = "backoff"
    /\ ReaderMayRun
    /\ serBackoffs' = Min(serBackoffs + 1, MaxAttempts)
    /\ serPc' = "open"
    /\ UNCHANGED <<stubFlag, robot_state, lastLine, lastErr, serAttempts,
                   stubT>>
    /\ UNCHANGED <<canVars, micVars, wwVars, pipeVars>>

\* a stub tick that also resets the ranging scan
StubReadingsClearsLidar(st, t, j) ==
    [st EXCEPT !.imu = <<j, j, 98 + j, j, j, j>>,
               !.compass = <<2000 + t, 500 - t, j - 4000>>,
               !.odom = <<0, 0>>,
               !.rpm = <<0, 0>>,
               !.lidar = <<>>]

\* the readings of one stub tick: jitter j stands for the random draws, the
\* tick number for the slow sine of the compass
StubReadings(st, t, j) ==
    [st EXCEPT !.imu = <<j, j, 98 + j, j, j, j>>,
               !.compass = <<2000 + t, 500 - t, j - 4000>>,
               !.odom = <<0, 0>>,
               !.rpm = <<0, 0>>]

\* _stub_run lines 57-74: one turn of the loop, after its 0.1 s sleep
StubTick ==
    /\ serPc = "stub"
    /\ ReaderMayRun
    /\ stubT' = Min(stubT + 1, MaxTicks)
    /\ \E j \in {0, 1} : robot_state' = StubReadings(robot_state, stubT', j)
    /\ UNCHANGED <<serPc, stubFlag, lastLine, lastErr, serAttempts,
                   serBackoffs>>
    /\ UNCHANGED <<canVars, micVars, wwVars, pipeVars>>

----------------------------------------------------------------------------
Init == MicInit /\ MainInit

\* the callback thread, the wake-word consumer and one record() caller
MicNext ==
    \/ CbBlock \/ CbDispatch \/ CbAppend \/ CbCheck \/ CbFlip \/ CbSet
    \/ CbFull \/ CbGet \/ CbPut
    \/ NextChunk
    \/ \E q \in 1..MaxSecs : RecordCall(1, q)
    \/ RecordSetNeed(1) \/ RecordClear(1) \/ RecordDrain(1)
    \/ RecordSetMode(1) \/ RecordReturn(1)

MicSpec == Init /\ [][MicNext]_vars

\* the audio thread goes on calling _callback, the event loop and its worker
\* thread go on running record()
CallbackStep ==
    \/ CbBlock \/ CbDispatch \/ CbAppend \/ CbCheck \/ CbFlip \/ CbSet
    \/ CbFull \/ CbGet \/ CbPut
RecordStep ==
    \/ RecordSetNeed(1) \/ RecordClear(1) \/ RecordDrain(1)
    \/ RecordSetMode(1) \/ RecordReturn(1)
MicFairSpec == MicSpec /\ WF_vars(CallbackStep) /\ WF_vars(RecordStep)

\* the same with a second coroutine that calls record() while the first
\* one's call is awaiting its capture, for the shortest and the longest
\* duration
Mic2Next ==
    \/ CbBlock \/ CbDispatch \/ CbAppend \/ CbCheck \/ CbFlip \/ CbSet
    \/ CbFull \/ CbGet \/ CbPut
    \/ NextChunk
    \/ \E q \in 1..MaxSecs : RecordCall(1, q)
    \/ \E q \in {1, MaxSecs} : pcR[1] = "wait" /\ RecordCall(2, q)
    \/ \E c \in Callers : RecordSetNeed(c)
    \/ \E c \in Callers : RecordClear(c)
    \/ \E c \in Callers : RecordDrain(c)
    \/ \E c \in Callers : RecordSetMode(c)
    \/ \E c \in Callers : RecordReturn(c)

\* two callers are tried with the hardware running at the model rate
Mic2Init == Init /\ hw_rate = SAMPLE_RATE

Mic2Spec == Mic2Init /\ [][Mic2Next]_vars

\* main(): the listener thread, the pipeline and the serial reader
PipeNext ==
    \/ WwOpen \/ WwRead \/ WwScore
    \/ PipeWake \/ PipeCaptureOpen \/ PipeCaptureRead \/ PipeTranscribe
    \/ PipeClassify \/ PipeRespond \/ PipePlan \/ PipeExecute \/ PipeStep
    \/ PipeHoldDone \/ PipeSpeak \/ PipeFail \/ ProcessExit
    \/ SerialStart \/ SerialOpen \/ SerialReadError \/ SerialBackoffDone
    \/ \E l \in MainLines : SerialReadLine(l)
    \/ StubTick

\* main() does not create a MicrophoneManager
PipeInit == Init /\ hw_rate = SAMPLE_RATE

PipeSpec == PipeInit /\ [][PipeNext]_vars

\* serial_reader.run alone, on every line and error the port may deliver
TelNext ==
    \/ SerialStart \/ SerialOpenCounted \/ SerialReadError
    \/ SerialBackoffDone
    \/ \E l \in Lines : SerialReadLine(l)
    \/ StubTick

TelSpec == PipeInit /\ [][TelNext]_vars

\* drive() on its own, for throttle and steering in hundredths
MaxHundredths == 130
Throttles == (0 - MaxHundredths)..MaxHundredths
Steerings == {0 - 150, 0 - 58, 0 - 29, 0, 57, 100, 116}
DriveNext == \E th \in Throttles, st \in Steerings : Drive(th, st)

DriveSpec == PipeInit /\ [][DriveNext]_vars

----------------------------------------------------------------------------
\* Properties of MicrophoneManager

LastN(s, n) == SubSeq(s, Len(s) - n + 1, Len(s))
Returned(c) == ret[c] # NoRet

\* C1: record(s) returns exactly ceil(s * M / chunkLength) * chunkLength
\* samples, for every s > 0.
C1_RecordLengthIsCeil ==
    \A c \in Callers :
        Returned(c) =>
            SampleCount(ret[c].buf)
              = Ceil(ret[c].secs * SAMPLE_RATE, SecsDen * CHUNK_SAMPLES)
                  * CHUNK_SAMPLES

\* C2: the buffer record() returns is the concatenation of exactly the
\* number of chunks computed for that call, each of them a full chunk,
\* however the callback thread interleaves with record().
C2_ExactChunkCount ==
    \A c \in Callers :
        Returned(c) =>
            /\ Len(ret[c].buf) = ret[c].need
            /\ \A i \in 1..Len(ret[c].buf) : ret[c].buf[i].len = CHUNK_SAMPLES

\* a capture of two chunks has returned while the wake-word consumer ran
C2_Witness ==
    /\ Returned(1)
    /\ ret[1].need = 2
    /\ lastChunk # NoChunk

\* C3: no chunk put on the detection queue before a record() call started
\* is part of the buffer that call returns.
C3_DrainInvariant ==
    \A c \in Callers :
        Returned(c) => SeqToSet(ret[c].buf) \cap enqAtCall[c] = {}

\* a record() that found chunks on the queue, drained them itself and returned
C3_Witness ==
    /\ Returned(1)
    /\ Cardinality(enqAtCall[1]) >= 2
    /\ lastChunk = NoChunk
    /\ removed

\* C4: a record() call made while another one is waiting is rejected or
\* queued: the capture in progress keeps its required count, and every call
\* returns the number of chunks computed for it.
C4_OneCaptureOutstanding ==
    \A c \in Callers :
        /\ pcR[c] = "wait" => cap_need = recNeed[c]
        /\ Returned(c) => Len(ret[c].buf) = ret[c].need

\* C5: the detection queue never holds more than 4 chunks.
C5_QueueBounded == Len(wake_queue) <= 4

\* the queue is full after more chunks arrived than it holds
C5_Witness ==
    /\ Len(wake_queue) = 4
    /\ Len(listened) > 4

\* C6: drop-oldest on overflow: as long as nothing was consumed, the queue
\* holds exactly the most recent (up to 4) chunks dispatched in listening
\* mode, in arrival order.
C6_DropOldest ==
    (~removed /\ pcCb = "idle") =>
        wake_queue = LastN(listened, Min(4, Len(listened)))

\* the callback has dropped the oldest chunk and queued the fifth
C6_Witness ==
    /\ ~removed
    /\ pcCb = "idle"
    /\ Len(listened) = 5
    /\ Head(wake_queue) = listened[2]
    /\ wake_queue[4] = listened[5]

----------------------------------------------------------------------------
\* Properties of main(): the listener thread and the pipeline

IsPrefix(a, b) == Len(a) <= Len(b) /\ SubSeq(b, 1, Len(a)) = a
ConverseOrder ==
    <<"wait", "capture", "recognize", "classify", "converse", "speak">>
ActOrder ==
    <<"wait", "capture", "recognize", "classify", "act", "speak">>

\* C7: exactly one hardware input stream is opened for the lifetime of the
\* process; the scanner and the capture stage never open a second one.
C7_OneInputStream ==
    /\ streamsOpened <= 1
    /\ ~(wwStream /\ capStream)

\* C8: the detection event is an at-most-one-buffered signal: a detection
\* made while an earlier one is unconsumed is coalesced, so no more than
\* one event is ever pending.
C8_AtMostOnePending == wwQueue <= 1

\* C9: a failure inside one cycle does not end the orchestrator or the
\* process, and the telemetry reader keeps running.
C9_FailureContained ==
    /\ pipePc \notin {"crashed", "exited"}
    /\ serPc # "cancelled"

\* C10: the stages of a cycle occur in the order wait, capture, recognize,
\* classify, exactly one of converse and act, speak; the pipeline is at the
\* stage the cycle's history says; and no capture is started without a
\* detection event taken from the queue for it (the wait does not time out).
C10_StageOrder ==
    /\ IsPrefix(cyc, ConverseOrder) \/ IsPrefix(cyc, ActOrder)
    /\ pipePc = "capture" => Len(cyc) = 1
    /\ pipePc \in {"capturing", "transcribe"} => Len(cyc) = 2
    /\ pipePc = "classify" => Len(cyc) = 3
    /\ pipePc \in {"respond", "plan"} => Len(cyc) = 4
    /\ pipePc \in {"execute", "step", "hold"} => cyc = SubSeq(ActOrder, 1, 5)
    /\ pipePc = "speak" => Len(cyc) = 5
    /\ pipePc = "wait" => Len(cyc) \in {0, 3, 6}
    /\ nCaptures <= nConsumed
    /\ nConsumed <= nDetect
    /\ pipePc = "wait" => nCaptures = nConsumed
    /\ pipePc = "capture" => nCaptures = nConsumed - 1

\* a second cycle ran through act and speak and is back at the wait
C10_Witness ==
    /\ pipePc = "wait"
    /\ cyc = ActOrder
    /\ nCaptures = 2
    /\ toolLog = <<"drive", "stop">>

\* C11: when recognition returns empty text the cycle ends there: the
\* pipeline is back at the wait, and the cycle holds no classification,
\* dialogue, planning, tool execution or synthesis.
C11_EmptyTextEndsCycle ==
    (text = "" /\ Len(cyc) >= 3) =>
        /\ cyc = <<"wait", "capture", "recognize">>
        /\ pipePc \in {"wait", "exited"}

\* the second cycle ended on empty text, after a first one that spoke
C11_Witness ==
    /\ text = ""
    /\ cyc = <<"wait", "capture", "recognize">>
    /\ nCaptures = 2
    /\ spoken # NoResponse
    /\ pipePc = "wait"

\* a line the reader is to discard: it starts a telemetry record and has an
\* unrecognized tag, a wrong field count or a field that is no number
Malformed(parts) ==
    /\ StartsWithDollar(parts)
    /\ \/ Branch(parts) = "none"
       \/ \E i \in 2..Len(parts) : ~IsFloat(parts[i])

\* C12: in Connected state a malformed telemetry line is silently
\* discarded: the shared store is unchanged, no error propagates and the
\* reader stays Connected.
C12_MalformedDiscarded ==
    [][(\E l \in Lines : Malformed(l) /\ SerialReadLine(l)) =>
           (robot_state' = robot_state /\ serPc' = "connected")]_vars

\* C13: when the serial endpoint does not exist, the reader is in
\* PermanentFallback after exactly one connection attempt, from then on it
\* stays there with its next synthetic write enabled, each stub step writes
\* synthetic readings, and it never raises.
C13_AbsentFallsBack ==
    /\ [](lastErr = AbsentErrno => (serPc = "stub" /\ ENABLED StubTick))
    /\ [][(serPc = "open" /\ serAttempts = 0 /\ lastErr' = AbsentErrno) =>
              (serPc' = "stub" /\ serAttempts' = 1)]_vars
    /\ [][(serPc = "stub" /\ lastErr = AbsentErrno) =>
              /\ serPc' = "stub"
              /\ serAttempts' = serAttempts
              /\ \E j \in {0, 1} :
                    robot_state' = StubReadings(robot_state, stubT', j)]_vars

C13_Witness ==
    /\ serPc = "stub"
    /\ ~stubFlag
    /\ serAttempts = 1
    /\ serBackoffs = 0
    /\ lastErr = AbsentErrno
    /\ stubT = MaxTicks
    /\ robot_state.odom = <<0, 0>>

\* C14: PermanentFallback is terminal and is entered only from an error
\* classified as endpoint absent or from the stub flag at process start, in
\* which case no connection attempt is ever made; once in PermanentFallback
\* the reader never opens the endpoint again, and a transient I/O error
\* never leads to PermanentFallback.
C14_FallbackTerminal ==
    /\ [](serPc = "stub" => \/ (stubFlag /\ serAttempts = 0)
                           \/ (~stubFlag /\ lastErr = AbsentErrno))
    /\ [](stubFlag => (serPc = "stub" /\ serAttempts = 0))
    /\ [][serPc = "stub" =>
              (serPc' = "stub" /\ serAttempts' = serAttempts)]_vars
    /\ [][(serPc \in {"open", "connected"} /\ serPc' = "stub") =>
              lastErr' = AbsentErrno]_vars
    /\ [][(serPc \in {"open", "connected"} /\ serPc' = "backoff") =>
              lastErr' # AbsentErrno]_vars

C14_Witness ==
    /\ serPc = "stub"
    /\ ~stubFlag
    /\ serAttempts = 2
    /\ serBackoffs = 1
    /\ lastErr = AbsentErrno
    /\ stubT > 0

\* C15 as stated: an endpoint that fails with transient errors and succeeds
\* on the N-th attempt is Connected after N backoff cycles.
C15_NBackoffsForNAttempts ==
    (serPc = "connected" /\ lastErr # 0) => serBackoffs = serAttempts

\* C15, amended: an endpoint that fails with transient errors and succeeds
\* on the N-th attempt is Connected after N - 1 backoff cycles, one full
\* backoff wait between every failed attempt and the next attempt, and no
\* attempt is made after a failure without a backoff before it.
C15_BackoffBetweenAttempts ==
    /\ [](serPc = "connected" => serBackoffs = serAttempts - 1)
    /\ [](serPc = "open" => serBackoffs = serAttempts)
    /\ [](serPc = "backoff" => (serBackoffs = serAttempts - 1
                                  /\ lastErr # AbsentErrno))
    /\ [][serAttempts' # serAttempts =>
              (serPc = "open" /\ serAttempts' = serAttempts + 1
                 /\ serBackoffs = serAttempts)]_vars
    /\ [][serBackoffs' # serBackoffs =>
              (serPc = "backoff" /\ serPc' = "open"
                 /\ serBackoffs' = serBackoffs + 1)]_vars

C15_Witness ==
    /\ serPc = "connected"
    /\ serAttempts = 3
    /\ serBackoffs = 2
    /\ lastErr # 0
    /\ lastErr # AbsentErrno

\* the next step of the pipeline coroutine and of the reader task
PipelineStep ==
    \/ PipeWake \/ PipeCaptureOpen \/ PipeCaptureRead \/ PipeTranscribe
    \/ PipeClassify \/ PipeRespond \/ PipePlan \/ PipeExecute \/ PipeStep
    \/ PipeHoldDone \/ PipeSpeak \/ PipeFail
ReaderStep ==
    \/ SerialStart \/ SerialOpen \/ SerialReadError \/ SerialBackoffDone
    \/ (\E l \in MainLines : SerialReadLine(l))
    \/ StubTick
\* the states in which the reader task is alive
SerialConnectionStates == {"start", "open", "connected", "backoff", "stub"}

\* C16: the telemetry reader and the pipeline orchestrator never block each
\* other: in every state of the orchestrator the reader's next step is
\* enabled, and in every state of the serial connection, the backoff wait
\* included, the orchestrator's next step is enabled (while it waits for a
\* wake event: as soon as one is pending).
C16_NeverBlockEachOther ==
    /\ (serPc \in SerialConnectionStates /\ pipePc # "exited") =>
           ENABLED ReaderStep
    /\ (/\ serPc \in SerialConnectionStates
        /\ pipePc \notin {"crashed", "exited"}
        /\ pipePc = "wait" => wwQueue > 0) => ENABLED PipelineStep

C16_Witness ==
    /\ pipePc = "hold"
    /\ serPc = "backoff"
    /\ ENABLED SerialBackoffDone
    /\ ENABLED PipeHoldDone

\* the tools invoked once the first k steps of plan p are done
InToolMap(t) == t \in TOOL_MAP
Invoked(p, k) == SelectSeq([i \in 1..k |-> p[i].tool], InToolMap)

\* C17: Act executes the plan's steps strictly in list order: for each step
\* the tool is resolved and invoked, then the orchestrator suspends for the
\* step's hold duration (not at all when it is zero) before the next step's
\* tool is invoked; a step naming an unknown tool is skipped and the
\* remaining steps still run.
C17_StepsInOrder ==
    /\ [](pipePc = "step" => toolLog = Invoked(plan, stepIdx - 1))
    /\ [](pipePc = "hold" => /\ toolLog = Invoked(plan, stepIdx)
                             /\ plan[stepIdx].tool \in TOOL_MAP
                             /\ plan[stepIdx].duration > 0)
    /\ [][(PipeStep /\ stepIdx <= Len(plan)) =>
              IF plan[stepIdx].tool \notin TOOL_MAP
              THEN /\ toolLog' = toolLog
                   /\ pipePc' = "step"
                   /\ stepIdx' = stepIdx + 1
              ELSE /\ toolLog' = Append(toolLog, plan[stepIdx].tool)
                   /\ IF plan[stepIdx].duration > 0
                      THEN pipePc' = "hold" /\ stepIdx' = stepIdx
                      ELSE pipePc' = "step" /\ stepIdx' = stepIdx + 1]_vars
    /\ [][pipePc = "hold" =>
              /\ toolLog' = toolLog
              /\ pipePc' = "step" => stepIdx' = stepIdx + 1]_vars

C17_Witness ==
    /\ pipePc = "step"
    /\ Len(plan) = 3
    /\ stepIdx = 4
    /\ plan[1].tool \notin TOOL_MAP
    /\ toolLog = <<"drive", "stop">>

\* C18: for an actionable command whose plan has n >= 1 steps, execute
\* returns "Done - n steps completed." only after all steps have run, and
\* Speak is invoked with exactly that string; for an empty plan
\* "No actions to execute." is returned and no tool is invoked.
C18_SummaryAfterAllSteps ==
    /\ []((pipePc = "speak" /\ cyc[Len(cyc)] = "act") =>
             IF plan = <<>>
             THEN /\ response = [msg |-> "No actions to execute.", n |-> 0]
                  /\ toolLog = <<>>
             ELSE /\ response = [msg |-> "Done - n steps completed.",
                                 n |-> Len(plan)]
                  /\ stepIdx = Len(plan) + 1
                  /\ toolLog = Invoked(plan, Len(plan)))
    /\ [][(pipePc \in {"execute", "step", "hold"} /\ pipePc' = "speak") =>
              IF plan = <<>>
              THEN pipePc = "execute"
              ELSE pipePc = "step" /\ stepIdx = Len(plan) + 1]_vars
    /\ [][(pipePc = "speak" /\ pipePc' = "wait") => spoken' = response]_vars

C18_Witness ==
    /\ pipePc = "wait"
    /\ cyc = <<"wait", "capture", "recognize", "classify", "act", "speak">>
    /\ Len(plan) = 3
    /\ spoken = [msg |-> "Done - n steps completed.", n |-> 3]
    /\ toolLog = <<"drive", "stop">>

\* C19: the buffer the Hear stage obtains for its fixed 3-second capture
\* holds exactly 3 seconds of audio at the model rate, 3 * 16000 = 48000
\* samples, when it is handed to recognition.
C19_ThreeSecondsOfAudio ==
    pipePc = "transcribe" => audio = CaptureSeconds * SAMPLE_RATE

\* C20: if the audio input device cannot be opened, startup fails fatally:
\* the process reaches no state in which the orchestrator waits for a
\* DetectionEvent while no audio stream and no scanner exist.
C20_OpenFailureIsFatal ==
    ~(/\ pipePc = "wait"
      /\ wwPc = "exited"
      /\ ~wwStream
      /\ streamsOpened = 0)

\* C21: the trigger scanner loop runs indefinitely: an error while handling
\* a single chunk (reading, embedding or scoring it) is caught and logged
\* and the loop proceeds to the next chunk.
C21_ScannerSurvivesChunkError ==
    [][(WwRead \/ WwScore) => wwPc' \in {"read", "score"}]_vars

\* chunks in the order the hardware delivered them, none left out
InArrivalOrder(s) == \A i \in 1..(Len(s) - 1) : s[i].first < s[i + 1].first
Consecutive(s) ==
    \A i \in 1..(Len(s) - 1) : s[i + 1].first = s[i].first + HwPerChunk

\* C22: chunk delivery is FIFO relative to hardware arrival for both
\* consumers and capture never drops: the buffer record() returns is the
\* concatenation, in arrival order, of consecutive chunks assembled while in
\* Capturing mode, and next_chunk() returns the surviving detection chunks
\* in arrival order.
C22_FifoDelivery ==
    /\ [](\A c \in Callers : Returned(c) =>
             /\ Consecutive(ret[c].buf)
             /\ SeqToSet(ret[c].buf) \cap SeqToSet(listened) = {})
    /\ [](InArrivalOrder(wake_queue))
    /\ []((lastChunk # NoChunk /\ wake_queue # <<>>) =>
             lastChunk.first < wake_queue[1].first)
    /\ [][NextChunk => /\ lastChunk' = Head(wake_queue)
                       /\ lastChunk # NoChunk =>
                              lastChunk.first < lastChunk'.first]_vars

C22_Witness ==
    /\ Returned(1)
    /\ Len(ret[1].buf) = 2
    /\ lastChunk # NoChunk
    /\ lastChunk.first > ret[1].buf[2].first
    /\ wake_queue # <<>>

\* the store entry of each tag and the number of parts of its line
TagKey == [t \in {"$IMU", "$CMP", "$ODO", "$RPM", "$LDR"} |->
             CASE t = "$IMU" -> "imu" [] t = "$CMP" -> "compass"
               [] t = "$ODO" -> "odom" [] t = "$RPM" -> "rpm"
               [] t = "$LDR" -> "lidar"]
RightCount(l) ==
    CASE l[1] = "$IMU" -> Len(l) = 7
      [] l[1] = "$CMP" -> Len(l) = 4
      [] l[1] \in {"$ODO", "$RPM"} -> Len(l) = 3
      [] l[1] = "$LDR" -> Len(l) > 2
\* a line that carries a complete record of its tag
WellFormed(l) ==
    /\ l # <<>>
    /\ l[1] \in DOMAIN TagKey
    /\ RightCount(l)
    /\ IF l[1] = "$LDR" THEN \A i \in 3..Len(l) : IsInt(l[i])
       ELSE \A i \in 2..Len(l) : IsFloat(l[i])
\* the record such a line carries
RecordOf(l) ==
    IF l[1] = "$LDR" THEN [i \in 1..(Len(l) - 2) |-> IntOf(l[i + 2])]
    ELSE [i \in 1..(Len(l) - 1) |-> FloatOf(l[i + 1])]

\* C23: the store entry of each tag is the parse of the most recent
\* well-formed line carrying that tag: a line for one tag replaces that
\* tag's record as a whole and leaves every other tag's entry unchanged,
\* any other line leaves the store as it is.
C23_LatestRecordPerTag ==
    /\ []((serPc = "connected" /\ WellFormed(lastLine)) =>
             robot_state[TagKey[lastLine[1]]] = RecordOf(lastLine))
    /\ [](/\ Len(robot_state.imu) \in {0, 6}
          /\ Len(robot_state.compass) \in {0, 3}
          /\ Len(robot_state.odom) \in {0, 2}
          /\ Len(robot_state.rpm) \in {0, 2})
    /\ [][\A l \in Lines : SerialReadLine(l) =>
             IF WellFormed(l)
             THEN robot_state' =
                      [robot_state EXCEPT ![TagKey[l[1]]] = RecordOf(l)]
             ELSE robot_state' = robot_state]_vars

C23_Witness ==
    /\ serPc = "connected"
    /\ lastLine = <<"$XYZ", "1">>
    /\ robot_state.odom = <<30, 5>>
    /\ robot_state.imu = <<10, 20, 30, 40, 50, 60>>
    /\ robot_state.lidar = <<7, 8>>
    /\ robot_state.rpm = <<>>

\* C24: the shared store is not written in any step taken while the reader
\* is in RetryingTransient (during the backoff wait and until a connection
\* is established again); writes happen only in Connected or
\* PermanentFallback.
C24_NoWriteWhileRetrying ==
    /\ [][(serPc \in {"start", "open", "backoff"}) =>
              robot_state' = robot_state]_vars
    /\ [][robot_state' # robot_state =>
              (serPc \in {"connected", "stub"} /\ serPc' = serPc)]_vars

C24_Witness ==
    /\ serPc = "open"
    /\ serBackoffs = 2
    /\ lastErr # 0
    /\ robot_state.odom = <<10, 20>>
    /\ robot_state.lidar = <<7, 8>>

\* C25: two consecutive captures of equal duration return buffers of
\* identical length, and the capture chunk list and the callback's
\* mini-block accumulator are empty both before and after each capture.
C25_AccumulationStateEmpty ==
    /\ [][\A c \in Callers : (\E q \in 1..MaxSecs : RecordCall(c, q)) =>
              (cap_chunks = <<>> /\ cb_buf = <<>>)]_vars
    /\ [][\A c \in Callers : RecordReturn(c) =>
              (cap_chunks' = <<>> /\ cb_buf' = <<>>)]_vars
    /\ [](\A c \in Callers : Returned(c) =>
              SampleCount(ret[c].buf) = ret[c].need * CHUNK_SAMPLES)

\* a byte read as a signed 8-bit integer
Signed8(b) == IF b >= 128 THEN b - 256 ELSE b

\* C26: the first two bytes of the drive frame are the two's-complement
\* 8-bit encodings of throttle and steering scaled by 100 after clamping to
\* [-1.0, 1.0]: for every input each byte, decoded as a signed 8-bit
\* integer, lies in [-100, 100] and equals the clamped, scaled value.
C26_DriveBytes ==
    driveArgs # <<>> =>
        \A i \in {1, 2} :
            /\ canFrame.data[i] \in 0..255
            /\ Signed8(canFrame.data[i]) \in (0 - 100)..100
            /\ Signed8(canFrame.data[i]) =
                   Max(0 - 100, Min(100, driveArgs[i]))

\* C27: for hardware rate R and model rate M with g = gcd(R, M), resampling
\* a block of (R/g)*k hardware samples with up factor M/g and down factor
\* R/g yields exactly (M/g)*k model-rate samples, for every k >= 1 tried;
\* so do the callback's own blocks when they are such a multiple.
C27_ResampleLength ==
    LET g == GCD(SAMPLE_RATE, hw_rate)
        up == SAMPLE_RATE \div g
        down == hw_rate \div g
    IN  /\ \A k \in 1..MaxK : ResamplePolyLen(down * k, up, down) = up * k
        /\ (hw_rate # SAMPLE_RATE /\ HwBlocksize(hw_rate) % down = 0) =>
               MiniLen(hw_rate) = up * (HwBlocksize(hw_rate) \div down)

C27_Witness ==
    /\ hw_rate = 48000
    /\ HwBlocksize(hw_rate) = 3 * CB_FRAMES
    /\ MiniLen(hw_rate) = CB_FRAMES
    /\ cb_buf # <<>>
    /\ chunk_count > 0
    /\ lastChunk.len = CHUNK_SAMPLES

\* C28: the captured window begins at call time: every sample of the buffer
\* record() returns was delivered by the hardware callback after that call
\* started; neither queued detection chunks nor mini-blocks accumulated
\* before the call are included.
C28_WindowBeginsAtCall ==
    \A c \in Callers : Returned(c) =>
        /\ \A i \in 1..Len(ret[c].buf) : ret[c].buf[i].first # partAtCall[c]
        /\ SeqToSet(ret[c].buf) \cap enqAtCall[c] = {}

\* the hardware blocks still to come suffice for the capture in progress
EnoughBlocksLeft == MaxBlocks - nblocks >= HwPerChunk * (cap_need + 1)

\* C29: the mode flips from Capturing back to Listening in the very
\* callback that appends the last required chunk, and only then is the
\* waiting capturer signalled; whenever record() returns the mode is
\* Listening; and as long as the callback keeps being invoked every
\* record() call returns.
C29_CompletionProtocol ==
    /\ [][(mode = "CAPTURE" /\ mode' = "WAKE_WORD") =>
              /\ pcCb = "flip"
              /\ Len(cap_chunks) = cap_need
              /\ cap_chunks[Len(cap_chunks)] = cbChunk]_vars
    /\ [][(~cap_done /\ cap_done') =>
              (pcCb = "set" /\ mode = "WAKE_WORD")]_vars
    /\ [][\A c \in Callers : RecordReturn(c) => mode' = "WAKE_WORD"]_vars
    /\ ((pcR[1] = "wait" /\ EnoughBlocksLeft) ~> (pcR[1] = "idle"))

C29_Witness ==
    /\ Returned(1)
    /\ Len(ret[1].buf) = 2
    /\ mode = "WAKE_WORD"
    /\ cap_done
    /\ pcR[1] = "idle"

\* C30: the two consumers are mutually exclusive: every chunk the callback
\* assembles is delivered to exactly one of the capture buffer and the
\* detection queue, chosen by the one mode value read at dispatch: a chunk
\* dispatched in Capturing mode is not pushed to the queue, a chunk
\* dispatched in Listening mode is not appended to the capture buffer, and
\* no chunk reaches both.
C30_ConsumersExclusive ==
    /\ [](/\ SeqToSet(cap_chunks) \cap enq = {}
          /\ SeqToSet(cap_chunks) \cap SeqToSet(listened) = {}
          /\ enq \subseteq SeqToSet(listened)
          /\ \A c \in Callers : SeqToSet(ret[c].buf) \cap enq = {})
    /\ [][CbDispatch =>
              IF mode = "CAPTURE"
              THEN cbChunk \notin SeqToSet(listened') /\ pcCb' = "append"
              ELSE cbChunk \in SeqToSet(listened') /\ pcCb' = "full"]_vars
    /\ [][(pcCb # "idle" /\ pcCb' = "idle") =>
              \/ cbChunk \in SeqToSet(cap_chunks') /\ cbChunk \notin enq'
              \/ cbChunk \in enq' /\ cbChunk \notin SeqToSet(cap_chunks')]_vars

C30_Witness ==
    /\ Returned(1)
    /\ enq # {}
    /\ \E x \in enq : x.first < ret[1].buf[1].first
    /\ \E x \in enq : x.first > ret[1].buf[1].first
    /\ pcCb = "idle"

\* C31: whenever the mode is Capturing the detection queue is empty:
\* record() drains the queue before it switches the mode, so no chunk
\* assembled before the capture is left for the scanner during the capture,
\* under every interleaving of the callback thread with record().
C31_QueueEmptyWhileCapturing ==
    mode = "CAPTURE" => wake_queue = <<>>

\* C32: in PermanentFallback each synthetic tick replaces the inertial,
\* compass, odometry and wheel-speed entries of the store and leaves the
\* ranging-scan (lidar) entry unchanged; the lidar entry keeps forever the
\* value it had on entering fallback, empty if no scan line was ever parsed.
C32_StubLeavesLidar ==
    /\ [][StubTick =>
              /\ Len(robot_state'.imu) = 6
              /\ robot_state'.imu[3] \in {98, 99}
              /\ robot_state'.compass[1] = 2000 + stubT'
              /\ robot_state'.compass[2] = 500 - stubT'
              /\ robot_state'.odom = <<0, 0>>
              /\ robot_state'.rpm = <<0, 0>>
              /\ robot_state'.lidar = robot_state.lidar]_vars
    /\ [][serPc = "stub" =>
              (serPc' = "stub" /\ robot_state'.lidar = robot_state.lidar)]_vars
    /\ []((serPc = "stub" /\ stubFlag) => robot_state.lidar = <<>>)
    /\ [](serAttempts = 0 => robot_state.lidar = <<>>)

\* fallback entered after a scan and other readings were parsed: the ticks
\* have overwritten odometry and wheel speed, the scan is still there
C32_Witness ==
    /\ serPc = "stub"
    /\ ~stubFlag
    /\ stubT = MaxTicks
    /\ robot_state.lidar = <<7, 8>>
    /\ robot_state.odom = <<0, 0>>
    /\ robot_state.rpm = <<0, 0>>
    /\ robot_state.compass[1] = 2000 + MaxTicks

====
